---------------------------- MODULE Spec2Model ----------------------------
(***************************************************************************)
(* Attendance tracking: the Dashboard page (check-in / check-out handlers  *)
(* and the render-time gate), the attendance_records table with its        *)
(* constraints and policies, and the clients (browser tabs or devices)     *)
(* that run the page against the shared store.                             *)
(*                                                                         *)
(* Instants are whole seconds of local wall-clock time counted from local  *)
(* midnight of day 0; a calendar date is a day number.                     *)
(***************************************************************************)
EXTENDS Integers, FiniteSets, Sequences, TLC

(***************************************************************************)
(* Bounds of the model.                                                    *)
(***************************************************************************)
\* Clients (tabs or devices) running the page.
NumTabs == 2
\* The clock is followed for MaxTicks steps of the grid of instants below.
MaxTicks == 7
\* A device clock is either accurate or MaxSkew seconds fast.
MaxSkew == 600

Tabs == 1..NumTabs

\* The signed-in user of a client: clients 1 and 2 are the same subject on
\* two tabs or devices, any further client is another subject.
UserOf(t) == IF t <= 2 THEN 1 ELSE 2

SecondsPerDay == 24 * 60 * 60

\* The instants of a day at which the model looks at the system:
\* 00:00:00, 07:00:00, 15:00:00, 15:05:00, 23:59:59.
GridOfDay == <<0, 25200, 54000, 54300, 86399>>

\* The n-th instant of the grid, counted from midnight of day 0.
GridInstant(n) ==
    (n \div Len(GridOfDay)) * SecondsPerDay + GridOfDay[(n % Len(GridOfDay)) + 1]

Instants == {GridInstant(n) : n \in 0..MaxTicks}

(***************************************************************************)
(* Time windows (24-hour clock).                                           *)
(***************************************************************************)
CHECK_IN_WINDOW == [start |-> [hour |-> 7, minute |-> 0],
                    end |-> [hour |-> 10, minute |-> 0]]

CHECK_OUT_WINDOW == [start |-> [hour |-> 15, minute |-> 0],
                     end |-> [hour |-> 18, minute |-> 0]]

\* check_out of a record whose session is open (SQL null).
NoTime == -1

(***************************************************************************)
(* date-fns on local instants.                                             *)
(***************************************************************************)
\* format(d, 'yyyy-MM-dd'): the local calendar date of an instant.
FormatDate(now) == now \div SecondsPerDay

startOfDay(now) == FormatDate(now) * SecondsPerDay

getHours(now) == (now % SecondsPerDay) \div 3600

getMinutes(now) == (now % 3600) \div 60

\* setHours(d, h): the hour replaced, minutes and seconds kept.
setHours(now, h) == now - getHours(now) * 3600 + h * 3600

\* setMinutes(d, m): the minute replaced, hour and seconds kept.
setMinutes(now, m) == now - getMinutes(now) * 60 + m * 60

\* isWithinInterval with the end excluded.
isWithinInterval_EndExcluded(now, start, end) == start <= now /\ now < end

\* isWithinInterval(d, {start, end}): both ends included.
isWithinInterval(now, start, end) == start <= now /\ now <= end

\* isToday(d): d lies on the calendar day of the current instant.
isToday(date, current) == startOfDay(date) = startOfDay(current)

\* now is the instant isWithinTimeWindow reads with new Date(); isToday reads
\* the clock again within the same evaluation.
isWithinTimeWindow(now, timeWindow) ==
    IF ~isToday(now, now) THEN FALSE
    ELSE LET start == setMinutes(setHours(now, timeWindow.start.hour),
                                 timeWindow.start.minute)
             end == setMinutes(setHours(now, timeWindow.end.hour),
                               timeWindow.end.minute)
         IN  isWithinInterval(now, start, end)

(***************************************************************************)
(* The gate of the page: which action the rendered card offers.            *)
(* existing is the client's todayAttendance: {} (null) or {record}.        *)
(***************************************************************************)
\* The check-in gate without the test for an existing record.
canCheckIn_IgnoresRecord(now, existing, timeWindow) ==
    isWithinTimeWindow(now, timeWindow)

canCheckIn(now, existing, timeWindow) ==
    existing = {} /\ isWithinTimeWindow(now, timeWindow)

\* The check-out gate without the test for an absent check_out.
canCheckOut_IgnoresCheckOut(now, existing, timeWindow) ==
    existing # {} /\ isWithinTimeWindow(now, timeWindow)

canCheckOut(now, existing, timeWindow) ==
    /\ existing # {}
    /\ \A r \in existing : r.check_out = NoTime
    /\ isWithinTimeWindow(now, timeWindow)

RenderView(existing, now) ==
    IF existing = {}
    THEN IF canCheckIn(now, existing, CHECK_IN_WINDOW)
         THEN "checkInButton" ELSE "checkInClosed"
    ELSE IF \E r \in existing : r.check_out # NoTime
         THEN "checkedOut"
         ELSE IF canCheckOut(now, existing, CHECK_OUT_WINDOW)
              THEN "checkOutButton" ELSE "checkOutClosed"

(***************************************************************************)
(* State.                                                                  *)
(***************************************************************************)
VARIABLES
    clock,              \* the true instant
    skew,               \* skew[t]: how far the device clock of t runs ahead
    store,              \* rows of attendance_records
    nextId,             \* the next id the store assigns
    pc,                 \* pc[t]: where the page of client t stands
    todayAttendance,    \* React state: {} or {the fetched row}
    loadingAttendance,  \* React state
    view,               \* what the last render of the card offers
    fetchDate,          \* fetchTodayAttendance: its local `today`
    ciToday,            \* handleCheckIn: its local `today`
    reqNow,             \* handleCheckIn / handleCheckOut: its local `now`
    sentAt,             \* true instant at which the pending request was issued
    resp,               \* the store's answer to the page's last mutation
    toast,              \* title of the toast the page shows
    sends,              \* inserts issued since the last check-in click
    raced,              \* the last insert overlapped another for the same key
    gWindow,            \* gate under test: its TimeWindow
    gNow,               \* gate under test: the instant
    gExisting,          \* gate under test: the record for today, {} or {record}
    gResult,            \* gate under test: what the gate answered
    dIn,                \* duration under test: check_in, in milliseconds
    dOut,               \* duration under test: check_out, or NoTime
    dShift,             \* duration under test: a displacement of both instants
    dResult,            \* duration under test: what calculateDuration returned
    rTable,             \* reports under test: the rows of attendance_records
    rFrom,              \* reports under test: fromDate
    rTo,                \* reports under test: toDate
    rToday,             \* reports under test: the date of new Date()
    rProfiles,          \* reports under test: the ids that have a profiles row
    rResult,            \* reports under test: what the admin fetches have set
    userRoles,          \* the roles the rows of user_roles give the session's user
    userRole,           \* Dashboard: React state, 'user' until a role is fetched
    pageLoading,        \* Dashboard: loading || loadingAttendance
    roleFetch,          \* Dashboard: fetchUserRole is "pending" or "settled"
    loadData,           \* AdminDashboard: "unmounted", "awaiting" or "done"
    pending,            \* AdminDashboard: the fetches of loadData not yet settled
    loading,            \* AdminDashboard: React state
    stats,              \* AdminDashboard: React state (the fields about today)
    dateFrom,           \* AdminDashboard: React state
    dateTo,             \* AdminDashboard: React state
    flights,            \* AdminDashboard: the fetchInternTotalHours calls in flight
    internTotalHours,   \* AdminDashboard: React state
    changes,            \* AdminDashboard: date range selections made so far
    failed,             \* AdminDashboard: some query of the session has failed
    swCache,            \* service worker: the entries of 'internship-cache-v1'
    swFlights,          \* service worker: the network fetches in flight
    swAnswer,           \* swAnswer[t]: the response handed to the page of t
    swRequests,         \* service worker: fetch events handled so far
    swFetches           \* service worker: network fetches issued so far

appVars == <<clock, skew, store, nextId, pc, todayAttendance, loadingAttendance,
             view, fetchDate, ciToday, reqNow, sentAt, resp, toast, sends, raced>>

gateVars == <<gWindow, gNow, gExisting, gResult>>

calcVars == <<dIn, dOut, dShift, dResult, rTable, rFrom, rTo, rToday,
              rProfiles, rResult>>

adminVars == <<userRoles, userRole, pageLoading, roleFetch, loadData, pending,
               loading, stats, dateFrom, dateTo, flights, internTotalHours,
               changes, failed>>

\* The variables of the functions under test and of the admin's session,
\* which the page of an intern leaves alone.
pureVars == <<gateVars, calcVars, adminVars>>

swVars == <<swCache, swFlights, swAnswer, swRequests, swFetches>>

vars == <<appVars, gateVars, calcVars, adminVars, swVars>>

storeVars == <<store, nextId>>

\* new Date() reads the clock of the device the page runs on.  The device
\* clocks: all accurate, or that of client 1 fast.
DeviceSkews == {[t \in Tabs |-> 0], [t \in Tabs |-> IF t = 1 THEN MaxSkew ELSE 0]}

\* new Date() on the device of client t.
Now(t) == clock + skew[t]

\* The row of the store with a given (user_id, date), as a set.
RowsFor(user, date) == {r \in store : r.user_id = user /\ r.date = date}

\* unique (user_id, date)
UniqueViolation(user, date) == RowsFor(user, date) # {}

AppInit ==
    /\ clock = 0
    /\ skew \in DeviceSkews
    /\ store = {}
    /\ nextId = 1
    /\ pc = [t \in Tabs |-> "fetch"]
    /\ todayAttendance = [t \in Tabs |-> {}]
    /\ loadingAttendance = [t \in Tabs |-> TRUE]
    /\ view = [t \in Tabs |-> "loading"]
    /\ fetchDate = [t \in Tabs |-> FormatDate(skew[t])]
    /\ ciToday = [t \in Tabs |-> 0]
    /\ reqNow = [t \in Tabs |-> 0]
    /\ sentAt = [t \in Tabs |-> 0]
    /\ resp = [t \in Tabs |-> "none"]
    /\ toast = [t \in Tabs |-> "none"]
    /\ sends = [t \in Tabs |-> 0]
    /\ raced = [t \in Tabs |-> FALSE]

\* No gate evaluation has been made.
NoResult == [applied |-> FALSE, probed |-> FALSE, canCheckIn |-> FALSE,
             canCheckOut |-> FALSE, before |-> FALSE, atStart |-> FALSE,
             atEnd |-> FALSE, after |-> FALSE]

GateIdle ==
    /\ gWindow = CHECK_IN_WINDOW
    /\ gNow = 0
    /\ gExisting = {}
    /\ gResult = NoResult

\* calculateDuration has not been applied.
NoDuration == [applied |-> FALSE, text |-> <<>>, history |-> <<>>,
               shifted |-> <<>>]

DurationIdle ==
    /\ dIn = 0
    /\ dOut = NoTime
    /\ dShift = 0
    /\ dResult = NoDuration

\* No admin fetch has completed.
NoReport == [fetched |-> "none", answered |-> TRUE, profilesAnswered |-> TRUE,
             internTotalHours |-> <<>>, todayRecords |-> <<>>,
             stats |-> [checkedIn |-> 0, checkedOut |-> 0, activeToday |-> 0],
             weeklyStats |-> <<>>]

ReportIdle ==
    /\ rTable = <<>>
    /\ rFrom = 0
    /\ rTo = 0
    /\ rToday = 0
    /\ rProfiles = {}
    /\ rResult = NoReport

\* No admin session is open.
AdminIdle ==
    /\ userRoles = {"user"}
    /\ userRole = "user"
    /\ pageLoading = TRUE
    /\ roleFetch = "pending"
    /\ loadData = "unmounted"
    /\ pending = {}
    /\ loading = TRUE
    /\ stats = [checkedIn |-> 0, checkedOut |-> 0, activeToday |-> 0]
    /\ dateFrom = 0
    /\ dateTo = 0
    /\ flights = {}
    /\ internTotalHours = <<>>
    /\ changes = 0
    /\ failed = FALSE

\* The service worker has handled no request.
SwIdle ==
    /\ swCache = {}
    /\ swFlights = {}
    /\ swAnswer = [t \in Tabs |-> {}]
    /\ swRequests = 0
    /\ swFetches = 0

CalcIdle == DurationIdle /\ ReportIdle /\ AdminIdle /\ SwIdle

(***************************************************************************)
(* Actions.  A handler runs up to its await in one step; the request then  *)
(* reaches the store at a later instant than the one the handler read      *)
(* (clock > sentAt[t]), and the handler resumes in a further step.         *)
(***************************************************************************)
\* Time passes.
Tick ==
    /\ \E i \in Instants : i > clock
    /\ clock' = CHOOSE i \in Instants : i > clock /\ \A j \in Instants : j > clock => i <= j
    /\ UNCHANGED <<skew, store, nextId, pc, todayAttendance, loadingAttendance,
                   view, fetchDate, ciToday, reqNow, sentAt, resp, toast, sends, raced>>
    /\ UNCHANGED pureVars

\* The page is (re)loaded: everything the old page held (state, handler
\* locals, toasts) is gone, and the effect starts fetchTodayAttendance, which
\* reads `today` and issues the select.
Mount(t) ==
    /\ pc' = [pc EXCEPT ![t] = "fetch"]
    /\ todayAttendance' = [todayAttendance EXCEPT ![t] = {}]
    /\ loadingAttendance' = [loadingAttendance EXCEPT ![t] = TRUE]
    /\ view' = [view EXCEPT ![t] = "loading"]
    /\ fetchDate' = [fetchDate EXCEPT ![t] = FormatDate(Now(t))]
    /\ sentAt' = [sentAt EXCEPT ![t] = clock]
    /\ ciToday' = [ciToday EXCEPT ![t] = 0]
    /\ reqNow' = [reqNow EXCEPT ![t] = 0]
    /\ resp' = [resp EXCEPT ![t] = "none"]
    /\ toast' = [toast EXCEPT ![t] = "none"]
    /\ sends' = [sends EXCEPT ![t] = 0]
    /\ raced' = [raced EXCEPT ![t] = FALSE]

\* The user reloads an idle page.
Reload(t) ==
    /\ pc[t] = "idle"
    /\ Mount(t)
    /\ UNCHANGED <<clock, skew, store, nextId>>
    /\ UNCHANGED pureVars

\* fetchTodayAttendance after the await: setTodayAttendance(data),
\* setLoadingAttendance(false), and the card is rendered.
FetchAnswered(t, data) ==
    /\ pc[t] = "fetch"
    /\ todayAttendance' = [todayAttendance EXCEPT ![t] = data]
    /\ view' = [view EXCEPT ![t] = RenderView(data, Now(t))]
    /\ loadingAttendance' = [loadingAttendance EXCEPT ![t] = FALSE]
    /\ pc' = [pc EXCEPT ![t] = "idle"]
    /\ fetchDate' = [fetchDate EXCEPT ![t] = 0]
    /\ sentAt' = [sentAt EXCEPT ![t] = 0]
    /\ UNCHANGED <<clock, skew, store, nextId, ciToday, reqNow, resp, toast,
                   sends, raced>>
    /\ UNCHANGED pureVars

\* fetchTodayAttendance completes: the select is answered (data is the row
\* or null; null too when the request failed), state is set and the card
\* is rendered.
FetchDone(t) ==
    /\ clock > sentAt[t]
    /\ \E data \in {RowsFor(UserOf(t), fetchDate[t]), {}} :
         FetchAnswered(t, data)

\* handleCheckIn, first clock read: today = format(new Date(), 'yyyy-MM-dd').
CheckInClick(t) ==
    /\ pc[t] = "idle"
    /\ view[t] = "checkInButton"
    /\ ciToday' = [ciToday EXCEPT ![t] = FormatDate(Now(t))]
    /\ pc' = [pc EXCEPT ![t] = "ci_now"]
    /\ resp' = [resp EXCEPT ![t] = "none"]
    /\ toast' = [toast EXCEPT ![t] = "none"]
    /\ sends' = [sends EXCEPT ![t] = 0]
    /\ raced' = [raced EXCEPT ![t] = FALSE]
    /\ UNCHANGED <<clock, skew, store, nextId, todayAttendance, loadingAttendance,
                   view, fetchDate, reqNow, sentAt>>
    /\ UNCHANGED pureVars

\* handleCheckIn, second clock read: now = new Date().toISOString(), and the
\* insert is issued.
CheckInSend(t) ==
    /\ pc[t] = "ci_now"
    /\ reqNow' = [reqNow EXCEPT ![t] = Now(t)]
    /\ sentAt' = [sentAt EXCEPT ![t] = clock]
    /\ sends' = [sends EXCEPT ![t] = sends[t] + 1]
    /\ pc' = [pc EXCEPT ![t] = "ci_wait"]
    /\ UNCHANGED <<clock, skew, store, nextId, todayAttendance, loadingAttendance,
                   view, fetchDate, ciToday, resp, toast, raced>>
    /\ UNCHANGED pureVars

\* The row an insert of client t creates.
NewRow(t) ==
    [id |-> nextId, user_id |-> UserOf(t), date |-> ciToday[t],
     check_in |-> reqNow[t], check_out |-> NoTime]

\* A table without unique (user_id, date): every insert is accepted.
InsertAccepted_NoUnique(t) == TRUE

\* Whether the store accepts the insert of client t.
InsertAccepted(t) == ~UniqueViolation(UserOf(t), ciToday[t])

\* Another client's insert for the same (user_id, date) is in flight.
Overlaps(t) ==
    \E u \in Tabs \ {t} :
        /\ pc[u] \in {"ci_wait", "ci_resp"}
        /\ UserOf(u) = UserOf(t)
        /\ ciToday[u] = ciToday[t]

\* The store answers the insert: the row is created, or the insert is
\* rejected by unique (user_id, date), or the request fails on the way.
StoreInsert(t) ==
    /\ pc[t] = "ci_wait"
    /\ clock > sentAt[t]
    /\ \/ /\ InsertAccepted(t)
          /\ store' = store \cup {NewRow(t)}
          /\ nextId' = nextId + 1
          /\ resp' = [resp EXCEPT ![t] = "ok"]
       \/ /\ ~InsertAccepted(t)
          /\ resp' = [resp EXCEPT ![t] = "duplicate"]
          /\ UNCHANGED storeVars
       \/ /\ resp' = [resp EXCEPT ![t] = "error"]
          /\ UNCHANGED storeVars
    /\ raced' = [raced EXCEPT ![t] = Overlaps(t)]
    /\ pc' = [pc EXCEPT ![t] = "ci_resp"]
    /\ sentAt' = [sentAt EXCEPT ![t] = 0]
    /\ UNCHANGED <<clock, skew, todayAttendance, loadingAttendance, view,
                   fetchDate, ciToday, reqNow, toast, sends>>
    /\ UNCHANGED pureVars

\* handleCheckIn that issues the insert again when it was rejected.
CheckInResponse_Retry(t) ==
    /\ pc[t] = "ci_resp"
    /\ IF resp[t] # "ok"
       THEN /\ toast' = [toast EXCEPT ![t] = "Error"]
            /\ pc' = [pc EXCEPT ![t] = "ci_wait"]
            /\ sentAt' = [sentAt EXCEPT ![t] = clock]
            /\ sends' = [sends EXCEPT ![t] = sends[t] + 1]
            /\ UNCHANGED <<todayAttendance, loadingAttendance, view, fetchDate,
                           ciToday, reqNow, resp, raced>>
       ELSE Mount(t)
    /\ UNCHANGED <<clock, skew, store, nextId>>
    /\ UNCHANGED pureVars

\* handleCheckIn after the await: the error toast, whose state change in
\* useToast renders the card again; or the success toast,
\* fetchTodayAttendance() and window.location.reload(), which replaces the
\* page (and with it the toast and the fetch just started) by a fresh one.
CheckInResponse(t) ==
    /\ pc[t] = "ci_resp"
    /\ IF resp[t] # "ok"
       THEN /\ toast' = [toast EXCEPT ![t] = "Error"]
            /\ view' = [view EXCEPT ![t] = RenderView(todayAttendance[t], Now(t))]
            /\ pc' = [pc EXCEPT ![t] = "idle"]
            /\ ciToday' = [ciToday EXCEPT ![t] = 0]
            /\ reqNow' = [reqNow EXCEPT ![t] = 0]
            /\ UNCHANGED <<todayAttendance, loadingAttendance, fetchDate,
                           sentAt, resp, sends, raced>>
       ELSE Mount(t)
    /\ UNCHANGED <<clock, skew, store, nextId>>
    /\ UNCHANGED pureVars

\* handleCheckOut up to the await: now is read and the update is issued.
CheckOutClick(t) ==
    /\ pc[t] = "idle"
    /\ view[t] = "checkOutButton"
    /\ todayAttendance[t] # {}
    /\ reqNow' = [reqNow EXCEPT ![t] = Now(t)]
    /\ sentAt' = [sentAt EXCEPT ![t] = clock]
    /\ resp' = [resp EXCEPT ![t] = "none"]
    /\ toast' = [toast EXCEPT ![t] = "none"]
    /\ pc' = [pc EXCEPT ![t] = "co_wait"]
    /\ UNCHANGED <<clock, skew, store, nextId, todayAttendance, loadingAttendance,
                   view, fetchDate, ciToday, sends, raced>>
    /\ UNCHANGED pureVars

\* The rows the update of client t is allowed to change (the policy) and
\* selects (.eq('id', todayAttendance.id)).
UpdateTargets(t) ==
    {r \in store : /\ r.user_id = UserOf(t)
                   /\ \E a \in todayAttendance[t] : r.id = a.id}

\* An update that also sets check_in.
UpdatedStore_SetsCheckIn(t) ==
    {IF r \in UpdateTargets(t)
     THEN [r EXCEPT !.check_out = reqNow[t], !.check_in = reqNow[t]]
     ELSE r
       : r \in store}

\* The store after update({check_out: now}) of client t.
UpdatedStore(t) ==
    {IF r \in UpdateTargets(t) THEN [r EXCEPT !.check_out = reqNow[t]] ELSE r
       : r \in store}

\* The store answers the update, or the request fails on the way.
StoreUpdate(t) ==
    /\ pc[t] = "co_wait"
    /\ clock > sentAt[t]
    /\ \/ /\ store' = UpdatedStore(t)
          /\ resp' = [resp EXCEPT ![t] = "ok"]
       \/ /\ resp' = [resp EXCEPT ![t] = "error"]
          /\ UNCHANGED store
    /\ pc' = [pc EXCEPT ![t] = "co_resp"]
    /\ sentAt' = [sentAt EXCEPT ![t] = 0]
    /\ UNCHANGED <<clock, skew, nextId, todayAttendance, loadingAttendance, view,
                   fetchDate, ciToday, reqNow, toast, sends, raced>>
    /\ UNCHANGED pureVars

\* handleCheckOut after the await.
CheckOutResponse(t) ==
    /\ pc[t] = "co_resp"
    /\ IF resp[t] # "ok"
       THEN /\ toast' = [toast EXCEPT ![t] = "Error"]
            /\ view' = [view EXCEPT ![t] = RenderView(todayAttendance[t], Now(t))]
            /\ pc' = [pc EXCEPT ![t] = "idle"]
            /\ ciToday' = [ciToday EXCEPT ![t] = 0]
            /\ reqNow' = [reqNow EXCEPT ![t] = 0]
            /\ UNCHANGED <<todayAttendance, loadingAttendance, fetchDate,
                           sentAt, resp, sends, raced>>
       ELSE Mount(t)
    /\ UNCHANGED <<clock, skew, store, nextId>>
    /\ UNCHANGED pureVars

PageNext ==
    \/ Tick
    \/ \E t \in Tabs : Reload(t)
    \/ \E t \in Tabs : FetchDone(t)
    \/ \E t \in Tabs : CheckInClick(t)
    \/ \E t \in Tabs : CheckInSend(t)
    \/ \E t \in Tabs : StoreInsert(t)
    \/ \E t \in Tabs : CheckInResponse(t)
    \/ \E t \in Tabs : CheckOutClick(t)
    \/ \E t \in Tabs : StoreUpdate(t)
    \/ \E t \in Tabs : CheckOutResponse(t)

\* The page and the store when no service worker stands between them.
AppNext == PageNext /\ UNCHANGED swVars

\* The page and the store; the gate under test is not exercised.
Init == AppInit /\ GateIdle /\ CalcIdle

Next == AppNext

Spec == Init /\ [][Next]_vars

\* The same system when every device clock is accurate.
SyncInit == Init /\ skew = [t \in Tabs |-> 0]

SyncSpec == SyncInit /\ [][Next]_vars

(***************************************************************************)
(* The gate as a function of its inputs: a window, an instant and the      *)
(* record for today are drawn, and the gate is applied to them.            *)
(***************************************************************************)
GateHours == {0, 7, 10, 15, 18, 23}

GateMinutes == {0, 30, 59}

ClockTimes == {[hour |-> h, minute |-> m] : h \in GateHours, m \in GateMinutes}

MinuteOfDay(hm) == hm.hour * 60 + hm.minute

\* TimeWindow: a pair of (hour, minute) bounds with start <= end.
TimeWindows ==
    {[start |-> a, end |-> b] : a \in ClockTimes, b \in ClockTimes}

GateWindows == {w \in TimeWindows : MinuteOfDay(w.start) <= MinuteOfDay(w.end)}

\* The instants the gate is applied to, all on day 1: around the hours of
\* the windows, on and off the minute.
GateInstants ==
    {SecondsPerDay + h * 3600 + m * 60 + sec :
        h \in GateHours \cup {6, 11}, m \in GateMinutes \cup {1, 29, 31},
        sec \in {0, 30, 59}}

\* A record for the day of the instant, open or completed.
GateRecord(now, out) ==
    [id |-> 1, user_id |-> 1, date |-> FormatDate(now),
     check_in |-> startOfDay(now), check_out |-> out]

GateRecords(now) ==
    {{}, {GateRecord(now, NoTime)}, {GateRecord(now, now)}}

\* The instant of a clock time on the day of `now`.
AtClockTime(now, hm) == startOfDay(now) + MinuteOfDay(hm) * 60

GateInit ==
    /\ AppInit
    /\ skew = [t \in Tabs |-> 0]
    /\ gWindow \in GateWindows
    /\ gNow \in GateInstants
    /\ gExisting \in GateRecords(gNow)
    /\ gResult = NoResult
    /\ CalcIdle

\* The card is rendered: both gates are evaluated on the inputs.
GateApply ==
    /\ ~gResult.applied
    /\ gResult' = [gResult EXCEPT
                     !.applied = TRUE,
                     !.canCheckIn = canCheckIn(gNow, gExisting, gWindow),
                     !.canCheckOut = canCheckOut(gNow, gExisting, gWindow)]
    /\ UNCHANGED <<gWindow, gNow, gExisting>>
    /\ UNCHANGED <<appVars, calcVars, adminVars, swVars>>

\* The check-in gate of a subject without a record is evaluated one minute
\* before the window starts, when it starts, when it ends, and one minute
\* after it ends.
GateProbe ==
    /\ ~gResult.probed
    /\ LET start == AtClockTime(gNow, gWindow.start)
           end == AtClockTime(gNow, gWindow.end)
       IN  gResult' = [gResult EXCEPT
                         !.probed = TRUE,
                         !.before = canCheckIn(start - 60, {}, gWindow),
                         !.atStart = canCheckIn(start, {}, gWindow),
                         !.atEnd = canCheckIn(end, {}, gWindow),
                         !.after = canCheckIn(end + 60, {}, gWindow)]
    /\ UNCHANGED <<gWindow, gNow, gExisting>>
    /\ UNCHANGED <<appVars, calcVars, adminVars, swVars>>

GateNext == GateApply \/ GateProbe

GateSpec == GateInit /\ [][GateNext]_vars

(***************************************************************************)
(* Durations.  Date.getTime() is in milliseconds; a JavaScript string is   *)
(* the sequence of its characters.                                         *)
(***************************************************************************)
MsPerMinute == 1000 * 60

MsPerHour == 1000 * 60 * 60

MsPerDay == 24 * MsPerHour

\* a % b of JavaScript for b > 0: the remainder has the sign of a.
JsRemainder(a, b) == IF a >= 0 THEN a % b ELSE -((-a) % b)

\* Math.floor(a / b) for b > 0.
MathFloor(a, b) == a \div b

DecimalDigits == <<"0", "1", "2", "3", "4", "5", "6", "7", "8", "9">>

RECURSIVE NaturalToString(_)
NaturalToString(n) ==
    IF n < 10 THEN <<DecimalDigits[n + 1]>>
    ELSE NaturalToString(n \div 10) \o <<DecimalDigits[(n % 10) + 1]>>

\* String(n) of an integer, as a template literal inserts it.
NumberToString(n) ==
    IF n < 0 THEN <<"-">> \o NaturalToString(-n) ELSE NaturalToString(n)

\* `${hours}h ${minutes}m`
HoursMinutesText(hours, minutes) ==
    NumberToString(hours) \o <<"h", " ">> \o NumberToString(minutes) \o <<"m">>

\* 'In Progress'
InProgress == <<"I", "n", " ", "P", "r", "o", "g", "r", "e", "s", "s">>

\* calculateDuration that formats an open session as one of no length.
calculateDuration_NoSentinel(checkIn, checkOut) ==
    LET diff == IF checkOut = NoTime THEN 0 ELSE checkOut - checkIn
    IN  HoursMinutesText(MathFloor(diff, MsPerHour),
                         MathFloor(JsRemainder(diff, MsPerHour), MsPerMinute))

\* calculateDuration that rounds the minutes to the nearest minute.
calculateDuration_Rounded(checkIn, checkOut) ==
    IF checkOut = NoTime THEN InProgress
    ELSE LET diff == checkOut - checkIn
         IN  HoursMinutesText(
                 MathFloor(diff, MsPerHour),
                 MathFloor(JsRemainder(diff, MsPerHour) + MsPerMinute \div 2,
                           MsPerMinute))

\* calculateDuration on the clock times of the two instants.
calculateDuration_ClockOfDay(checkIn, checkOut) ==
    IF checkOut = NoTime THEN InProgress
    ELSE LET diff == (checkOut % MsPerDay) - (checkIn % MsPerDay)
         IN  HoursMinutesText(
                 MathFloor(diff, MsPerHour),
                 MathFloor(JsRemainder(diff, MsPerHour), MsPerMinute))

\* calculateDuration of AdminDashboard.
calculateDuration(checkIn, checkOut) ==
    IF checkOut = NoTime THEN InProgress
    ELSE LET diff == checkOut - checkIn
             hours == MathFloor(diff, MsPerHour)
             minutes == MathFloor(JsRemainder(diff, MsPerHour), MsPerMinute)
         IN  HoursMinutesText(hours, minutes)

\* calculateDuration of AttendanceHistory.
AttendanceHistory_calculateDuration(checkIn, checkOut) ==
    IF checkOut = NoTime THEN InProgress
    ELSE LET diff == checkOut - checkIn
             hours == MathFloor(diff, MsPerHour)
             minutes == MathFloor(JsRemainder(diff, MsPerHour), MsPerMinute)
         IN  HoursMinutesText(hours, minutes)

\* str.split(' ')
RECURSIVE SplitOnSpace(_)
SplitOnSpace(str) ==
    IF \A i \in 1..Len(str) : str[i] # " " THEN <<str>>
    ELSE LET i == CHOOSE k \in 1..Len(str) :
                      str[k] = " " /\ \A j \in 1..(k - 1) : str[j] # " "
         IN  <<SubSeq(str, 1, i - 1)>> \o SplitOnSpace(SubSeq(str, i + 1, Len(str)))

IsDigit(c) == \E i \in 1..10 : DecimalDigits[i] = c

DigitValue(c) == (CHOOSE i \in 1..10 : DecimalDigits[i] = c) - 1

\* The value of the longest prefix of digits of str, after the digits read
\* so far have given acc.
RECURSIVE DigitsPrefix(_, _)
DigitsPrefix(str, acc) ==
    IF str = <<>> \/ ~IsDigit(Head(str)) THEN acc
    ELSE DigitsPrefix(Tail(str), acc * 10 + DigitValue(Head(str)))

\* parseInt(str): {} is NaN, {n} the number n.
RECURSIVE parseInt(_)
parseInt(str) ==
    IF str = <<>> THEN {}
    ELSE IF Head(str) = " " THEN parseInt(Tail(str))
    ELSE LET signed == Head(str) \in {"-", "+"}
             digits == IF signed THEN Tail(str) ELSE str
         IN  IF digits = <<>> \/ ~IsDigit(Head(digits)) THEN {}
             ELSE IF Head(str) = "-" THEN {-DigitsPrefix(digits, 0)}
             ELSE {DigitsPrefix(digits, 0)}

\* The instant, in milliseconds, of a clock time on a day.
AtMs(day, h, m, sec, ms) ==
    day * MsPerDay + h * MsPerHour + m * MsPerMinute + sec * 1000 + ms

DurationCheckIns ==
    {AtMs(1, 9, 0, 0, 0), AtMs(1, 9, 0, 0, 1), AtMs(1, 17, 30, 0, 0),
     AtMs(1, 23, 0, 0, 0), AtMs(2, 1, 0, 0, 0)}

DurationCheckOuts ==
    {NoTime,
     AtMs(1, 9, 0, 0, 0), AtMs(1, 9, 0, 59, 999), AtMs(1, 9, 1, 0, 0),
     AtMs(1, 17, 29, 59, 999), AtMs(1, 17, 30, 0, 0), AtMs(1, 17, 30, 59, 999),
     AtMs(2, 1, 0, 0, 0), AtMs(2, 9, 0, 0, 0), AtMs(2, 23, 0, 0, 1),
     AtMs(3, 10, 15, 30, 500)}

DurationShifts == {0, 1, 7 * MsPerHour + 1234, MsPerDay - 1}

DurationInit ==
    /\ AppInit
    /\ skew = [t \in Tabs |-> 0]
    /\ GateIdle
    /\ AdminIdle
    /\ SwIdle
    /\ ReportIdle
    /\ dIn \in DurationCheckIns
    /\ dOut \in DurationCheckOuts
    /\ dShift \in DurationShifts
    /\ dResult = NoDuration

Shifted(t, by) == IF t = NoTime THEN NoTime ELSE t + by

\* A row of the attendance table is rendered: its duration is calculated.
DurationApply ==
    /\ ~dResult.applied
    /\ dResult' = [applied |-> TRUE,
                   text |-> calculateDuration(dIn, dOut),
                   history |-> AttendanceHistory_calculateDuration(dIn, dOut),
                   shifted |-> calculateDuration(Shifted(dIn, dShift),
                                                 Shifted(dOut, dShift))]
    /\ UNCHANGED <<dIn, dOut, dShift>>
    /\ UNCHANGED <<rTable, rFrom, rTo, rToday, rProfiles, rResult>>
    /\ UNCHANGED <<appVars, gateVars, adminVars, swVars>>

DurationNext == DurationApply

DurationSpec == DurationInit /\ [][DurationNext]_vars

(***************************************************************************)
(* The admin reports.  The rows of attendance_records are a sequence, in   *)
(* the order in which a select without order returns them; check_in and    *)
(* check_out are in milliseconds.                                          *)
(***************************************************************************)
\* The attendance table under test has at most MaxRows rows.
MaxRows == 3

\* .gte('date', fromDate).lte('date', toDate).not('check_out', 'is', null)
CompletedInRange(table, fromDate, toDate) ==
    SelectSeq(table, LAMBDA r : /\ r.date >= fromDate
                                /\ r.date <= toDate
                                /\ r.check_out # NoTime)

\* The records the forEach does not skip.
Summed(data) == SelectSeq(data, LAMBDA r : r.check_out # NoTime)

\* One key per summed record, in the order of the records.
DurationKeys_PerRecord(data) ==
    [i \in 1..Len(Summed(data)) |-> Summed(data)[i].user_id]

\* Object.keys(durationsByUser): the user_ids of the summed records, each
\* once, in the order in which the forEach first met them (user_ids are
\* uuids, so the keys keep their insertion order).
DurationKeys(data) ==
    LET rows == Summed(data)
        first == {i \in 1..Len(rows) :
                     \A j \in 1..(i - 1) : rows[j].user_id # rows[i].user_id}
    IN  [k \in 1..Cardinality(first) |->
            rows[CHOOSE i \in first :
                    Cardinality({j \in first : j <= i}) = k].user_id]

\* durationsByUser[userId]: the sum of end.getTime() - start.getTime() over
\* the summed records of the user.
RECURSIVE durationsByUser(_, _)
durationsByUser(data, userId) ==
    IF data = <<>> THEN 0
    ELSE LET record == Head(data)
             diff == record.check_out - record.check_in
         IN  IF record.user_id = userId /\ record.check_out # NoTime
             THEN diff + durationsByUser(Tail(data), userId)
             ELSE durationsByUser(Tail(data), userId)

\* The total with the minutes rounded up.
TotalHoursText_Ceil(totalMs) ==
    HoursMinutesText(MathFloor(totalMs, MsPerHour),
                     MathFloor(JsRemainder(totalMs, MsPerHour) + MsPerMinute - 1,
                               MsPerMinute))

\* totalHours of a row: `${hours}h ${minutes}m` of the summed milliseconds.
TotalHoursText(totalMs) ==
    LET hours == MathFloor(totalMs, MsPerHour)
        minutes == MathFloor(JsRemainder(totalMs, MsPerHour), MsPerMinute)
    IN  HoursMinutesText(hours, minutes)

\* The rows of the profiles table.
ProfileNames == <<"Ana", "Ben", "Chi">>

ProfileRow(u) ==
    [id |-> u, full_name |-> ProfileNames[u], email |-> "intern@example.org",
     school |-> "School"]

\* .from('profiles').select(...).in('id', userIds)
ProfilesIn(present, userIds) ==
    {ProfileRow(u) : u \in present \cap {userIds[i] : i \in 1..Len(userIds)}}

UnknownProfile ==
    [full_name |-> "Unknown User", email |-> "", school |-> "Not specified"]

\* profilesMap.get(userId) || { full_name: 'Unknown User', ... }
ProfileOrUnknown(profilesData, userId) ==
    IF \E p \in profilesData : p.id = userId
    THEN LET p == CHOOSE q \in profilesData : q.id = userId
         IN  [full_name |-> p.full_name, email |-> p.email, school |-> p.school]
    ELSE UnknownProfile

\* The rows of the subjects that have a profile only.
InternRows_KnownOnly(data, profilesData) ==
    LET userIds == SelectSeq(DurationKeys(data),
                             LAMBDA u : \E p \in profilesData : p.id = u)
    IN  [i \in 1..Len(userIds) |->
            [userId |-> userIds[i],
             fullName |-> ProfileOrUnknown(profilesData, userIds[i]).full_name,
             email |-> ProfileOrUnknown(profilesData, userIds[i]).email,
             school |-> ProfileOrUnknown(profilesData, userIds[i]).school,
             totalHours |-> TotalHoursText(durationsByUser(data, userIds[i]))]]

\* userIds.map(userId => ({userId, fullName, email, school, totalHours}))
InternRows(data, profilesData) ==
    LET userIds == DurationKeys(data)
    IN  [i \in 1..Len(userIds) |->
            LET profile == ProfileOrUnknown(profilesData, userIds[i])
                totalMs == durationsByUser(data, userIds[i])
            IN  [userId |-> userIds[i],
                 fullName |-> profile.full_name,
                 email |-> profile.email,
                 school |-> profile.school,
                 totalHours |-> TotalHoursText(totalMs)]]

\* parseInt(totalHours.split(' ')[0]); totalHours always starts with a
\* number.
HoursOf(row) ==
    CHOOSE h \in parseInt(SplitOnSpace(row.totalHours)[1]) : TRUE

MinutesOf(row) ==
    CHOOSE m \in parseInt(SplitOnSpace(row.totalHours)[2]) : TRUE

\* The rows in the order of their ranks: rank[i] rows come before rows[i].
ByRank(rows, rank) ==
    [k \in 1..Len(rows) |-> rows[CHOOSE i \in 1..Len(rows) : rank[i] = k - 1]]

\* The sort with the minutes as a second key.
SortByHours_ThenMinutes(rows) ==
    LET Key(i) == HoursOf(rows[i]) * 60 + MinutesOf(rows[i])
    IN  ByRank(rows,
               [i \in 1..Len(rows) |->
                   Cardinality({j \in 1..Len(rows) :
                                   \/ Key(j) > Key(i)
                                   \/ (Key(j) = Key(i) /\ j < i)})])

\* .sort((a, b) => bHours - aHours): descending in the parsed hours; the
\* sort is stable, so rows with equal hours keep their order.
SortByHours(rows) ==
    ByRank(rows,
           [i \in 1..Len(rows) |->
               Cardinality({j \in 1..Len(rows) :
                               \/ HoursOf(rows[j]) > HoursOf(rows[i])
                               \/ (HoursOf(rows[j]) = HoursOf(rows[i]) /\ j < i)})])

\* fetchInternTotalHours from the answers to its two selects.
InternTotalHours(attendanceData, present) ==
    IF Len(attendanceData) = 0 THEN <<>>
    ELSE IF Len(DurationKeys(attendanceData)) = 0 THEN <<>>
    ELSE SortByHours(InternRows(attendanceData,
                                ProfilesIn(present, DurationKeys(attendanceData))))

\* .eq('date', today).order('check_in', { ascending: false })
TodayRows(table, today) ==
    LET rows == SelectSeq(table, LAMBDA r : r.date = today)
    IN  ByRank(rows,
               [i \in 1..Len(rows) |->
                   Cardinality({j \in 1..Len(rows) :
                                   \/ rows[j].check_in > rows[i].check_in
                                   \/ (rows[j].check_in = rows[i].check_in /\ j < i)})])

\* [...new Set(attendanceData.map(record => record.user_id))]
TodayUserIds(attendanceData) ==
    LET first == {i \in 1..Len(attendanceData) :
                     \A j \in 1..(i - 1) :
                         attendanceData[j].user_id # attendanceData[i].user_id}
    IN  [k \in 1..Cardinality(first) |->
            attendanceData[CHOOSE i \in first :
                              Cardinality({j \in first : j <= i}) = k].user_id]

\* The profile a record of today's list carries.
TodayProfile(profilesData, userId) ==
    IF \E p \in profilesData : p.id = userId
    THEN CHOOSE p \in profilesData : p.id = userId
    ELSE UnknownProfile

\* formattedData: every record with its profile.
FormattedData(attendanceData, profilesData) ==
    [i \in 1..Len(attendanceData) |->
        [record |-> attendanceData[i],
         profiles |-> TodayProfile(profilesData, attendanceData[i].user_id)]]

\* The stats fetchTodayAttendance sets from the records.
TodayStats(attendanceData) ==
    LET checkedOutCount ==
            Len(SelectSeq(attendanceData, LAMBDA r : r.check_out # NoTime))
    IN  [checkedIn |-> Len(attendanceData),
         checkedOut |-> checkedOutCount,
         activeToday |-> Len(attendanceData) - checkedOutCount]

\* A range of eight days.
DateRange_EightDays(today) == [i \in 1..8 |-> today - 8 + i]

\* eachDayOfInterval({ start: subDays(today, 6), end: today })
DateRange(today) == [i \in 1..7 |-> (today - 6) + (i - 1)]

\* format(date, 'EEE'); day 0 is a Monday.
WeekdayNames == <<"Mon", "Tue", "Wed", "Thu", "Fri", "Sat", "Sun">>

FormatWeekday(date) == WeekdayNames[(date % 7) + 1]

\* .gte('date', format(weekAgo)).lte('date', format(today))
WeekRows(table, today) ==
    SelectSeq(table, LAMBDA r : r.date >= today - 6 /\ r.date <= today)

\* dailyStats: one entry per date of the range.
DailyStats(today, data) ==
    [i \in 1..Len(DateRange(today)) |->
        LET dateStr == DateRange(today)[i]
            dayData == SelectSeq(data, LAMBDA r : r.date = dateStr)
        IN  [date |-> FormatWeekday(dateStr),
             checkIns |-> Len(dayData),
             checkOuts |-> Len(SelectSeq(dayData, LAMBDA r : r.check_out # NoTime))]]

(***************************************************************************)
(* The admin fetches as functions of the table: a table, a date range and  *)
(* the profiles are drawn, and a fetch is run on them.                     *)
(***************************************************************************)
ReportUsers == {1, 2, 3}

ReportDates == {1, 2}

\* The sessions of a day, as clock times in milliseconds: open; 3 h;
\* 2 h 30 min 59.999 s; 3 h 30 min; and one that ends 1 h 30 min before it
\* starts.
ReportSessions ==
    {[in |-> 9 * MsPerHour, out |-> NoTime],
     [in |-> 9 * MsPerHour, out |-> 12 * MsPerHour],
     [in |-> 9 * MsPerHour, out |-> 11 * MsPerHour + 31 * MsPerMinute - 1],
     [in |-> 9 * MsPerHour, out |-> 12 * MsPerHour + 30 * MsPerMinute],
     [in |-> 12 * MsPerHour, out |-> 10 * MsPerHour + 30 * MsPerMinute]}

ReportRow(u, d, session) ==
    [id |-> 10 * d + u, user_id |-> u, date |-> d,
     check_in |-> d * MsPerDay + session.in,
     check_out |-> IF session.out = NoTime THEN NoTime
                   ELSE d * MsPerDay + session.out]

ReportRows ==
    {ReportRow(u, d, session) :
        u \in ReportUsers, d \in ReportDates, session \in ReportSessions}

\* The tables of at most MaxRows rows that satisfy unique (user_id, date).
ReportTables ==
    UNION {{t \in [1..n -> ReportRows] :
               \A i \in 1..n : \A j \in 1..n :
                   (t[i].user_id = t[j].user_id /\ t[i].date = t[j].date) => i = j}
           : n \in 0..MaxRows}

ReportInit ==
    /\ AppInit
    /\ skew = [t \in Tabs |-> 0]
    /\ GateIdle
    /\ AdminIdle
    /\ SwIdle
    /\ DurationIdle
    /\ rTable \in ReportTables
    /\ rFrom \in {1, 2}
    /\ rTo = 2
    /\ rToday = 2
    /\ rProfiles \in {{}, {1}, ReportUsers}
    /\ rResult = NoReport

\* fetchInternTotalHours(rFrom, rTo): each of its two selects is answered or
\* fails (data is then null).
TotalsApply ==
    /\ rResult = NoReport
    /\ \E ok \in BOOLEAN : \E pok \in BOOLEAN :
         /\ ~ok => pok
         /\ LET attendanceData ==
                    IF ok THEN CompletedInRange(rTable, rFrom, rTo) ELSE <<>>
                present == IF pok THEN rProfiles ELSE {}
            IN  rResult' = [NoReport EXCEPT
                              !.fetched = "totals",
                              !.answered = ok,
                              !.profilesAnswered = pok,
                              !.internTotalHours =
                                  InternTotalHours(attendanceData, present)]
    /\ UNCHANGED <<rTable, rFrom, rTo, rToday, rProfiles>>
    /\ UNCHANGED <<dIn, dOut, dShift, dResult>>
    /\ UNCHANGED <<appVars, gateVars, adminVars, swVars>>

\* fetchTodayAttendance of AdminDashboard: a select that fails throws, and
\* the catch empties the list; without records the list and the stats are
\* emptied; otherwise the records are set with their profiles.
TodayApply ==
    /\ rResult = NoReport
    /\ \E ok \in BOOLEAN : \E pok \in BOOLEAN :
         /\ ~ok => pok
         /\ LET attendanceData == TodayRows(rTable, rToday)
                profilesData == ProfilesIn(rProfiles, TodayUserIds(attendanceData))
            IN  rResult' =
                  IF ~ok \/ (Len(attendanceData) > 0 /\ ~pok)
                  THEN [NoReport EXCEPT !.fetched = "today", !.answered = ok,
                                        !.profilesAnswered = pok,
                                        !.todayRecords = <<>>]
                  ELSE IF Len(attendanceData) = 0
                  THEN [NoReport EXCEPT !.fetched = "today",
                                        !.todayRecords = <<>>,
                                        !.stats = [checkedIn |-> 0,
                                                   checkedOut |-> 0,
                                                   activeToday |-> 0]]
                  ELSE [NoReport EXCEPT !.fetched = "today",
                                        !.todayRecords =
                                            FormattedData(attendanceData, profilesData),
                                        !.stats = TodayStats(attendanceData)]
    /\ UNCHANGED <<rTable, rFrom, rTo, rToday, rProfiles>>
    /\ UNCHANGED <<dIn, dOut, dShift, dResult>>
    /\ UNCHANGED <<appVars, gateVars, adminVars, swVars>>

ReportNext == TotalsApply \/ TodayApply

ReportSpec == ReportInit /\ [][ReportNext]_vars

WeeklyInit ==
    /\ AppInit
    /\ skew = [t \in Tabs |-> 0]
    /\ GateIdle
    /\ AdminIdle
    /\ SwIdle
    /\ DurationIdle
    /\ rTable \in ReportTables
    /\ rFrom = 1
    /\ rTo = 2
    /\ rToday \in {2, 8}
    /\ rProfiles = {}
    /\ rResult = NoReport

\* fetchWeeklyStats: the select is answered or fails (data is then null).
WeeklyApply ==
    /\ rResult = NoReport
    /\ \E ok \in BOOLEAN :
         LET data == IF ok THEN WeekRows(rTable, rToday) ELSE <<>>
         IN  rResult' = [NoReport EXCEPT
                           !.fetched = "weekly",
                           !.answered = ok,
                           !.weeklyStats = DailyStats(rToday, data)]
    /\ UNCHANGED <<rTable, rFrom, rTo, rToday, rProfiles>>
    /\ UNCHANGED <<dIn, dOut, dShift, dResult>>
    /\ UNCHANGED <<appVars, gateVars, adminVars, swVars>>

WeeklyNext == WeeklyApply

WeeklySpec == WeeklyInit /\ [][WeeklyNext]_vars

(***************************************************************************)
(* The session of an admin: the Dashboard selects the view from the role   *)
(* it fetched, and the AdminDashboard loads its data with seven concurrent *)
(* fetches and re-fetches the totals whenever the date range is changed.   *)
(* The store is rTable, which no step changes; today is rToday.            *)
(***************************************************************************)
MaxRangeChanges == 2

\* .maybeSingle(): the row if exactly one matches, null if none does, and an
\* error with null data if several do.
maybeSingle(rows) == IF Cardinality(rows) = 1 THEN rows ELSE {}

\* const isAdmin = userRole === 'admin'
isAdmin == userRole = "admin"

\* What the Dashboard renders.
ShownView ==
    IF pageLoading THEN "loading"
    ELSE IF isAdmin THEN "admin" ELSE "user"

\* The fetches loadData starts.
LoadDataFetches ==
    {"fetchTodayAttendance", "fetchStats", "fetchUserProfiles",
     "fetchWeeklyStats", "fetchSchoolDistribution", "fetchRecentSignups",
     "fetchInternTotalHours"}

\* new Date(now.getFullYear(), now.getMonth(), 1): the dates of the model
\* are the days of one month, counted from 1.
FirstOfMonth(today) == 1

\* What fetchStats sets from its four selects; a select that fails gives a
\* null count or null data.
StatsOfToday(table, today, okIn, okOut, okData) ==
    LET rows == SelectSeq(table, LAMBDA r : r.date = today)
        out == SelectSeq(rows, LAMBDA r : r.check_out # NoTime)
    IN  [checkedIn |-> IF okIn THEN Len(rows) ELSE 0,
         checkedOut |-> IF okOut THEN Len(out) ELSE 0,
         activeToday |-> IF okData THEN Len(rows) ELSE 0]

\* The rows the store of the admin's session may hold: a session of 3 h of
\* intern 1 on day 1, one on day 2, and an open session of intern 2 on day 2.
AdminRows ==
    {ReportRow(1, 1, [in |-> 9 * MsPerHour, out |-> 12 * MsPerHour]),
     ReportRow(1, 2, [in |-> 9 * MsPerHour, out |-> 12 * MsPerHour]),
     ReportRow(2, 2, [in |-> 9 * MsPerHour, out |-> NoTime])}

AdminTables ==
    {t \in ReportTables : Len(t) <= 2 /\ \A i \in 1..Len(t) : t[i] \in AdminRows}

AdminInit ==
    /\ AppInit
    /\ skew = [t \in Tabs |-> 0]
    /\ GateIdle
    /\ DurationIdle
    /\ rTable \in AdminTables
    /\ rFrom = 0
    /\ rTo = 0
    /\ rToday = 2
    /\ rProfiles = ReportUsers
    /\ rResult = NoReport
    /\ userRoles \in {{"user"}, {"admin"}, {"user", "admin"}}
    /\ userRole = "user"
    /\ pageLoading = TRUE
    /\ roleFetch = "pending"
    /\ loadData = "unmounted"
    /\ pending = {}
    /\ loading = TRUE
    /\ stats = [checkedIn |-> 0, checkedOut |-> 0, activeToday |-> 0]
    /\ dateFrom = 0
    /\ dateTo = 0
    /\ flights = {}
    /\ internTotalHours = <<>>
    /\ changes = 0
    /\ failed = FALSE
    /\ SwIdle

adminFrame == <<appVars, gateVars, calcVars, swVars, userRoles>>

\* fetchUserRole settles.
FetchUserRole ==
    /\ roleFetch = "pending"
    /\ \E ok \in BOOLEAN :
         LET data == IF ok THEN maybeSingle(userRoles) ELSE {}
         IN  /\ userRole' = IF data # {} THEN CHOOSE role \in data : TRUE
                            ELSE userRole
             /\ failed' = (failed \/ ~ok)
    /\ roleFetch' = "settled"
    /\ UNCHANGED <<pageLoading, loadData, pending, loading, stats, dateFrom,
                   dateTo, flights, internTotalHours, changes>>
    /\ UNCHANGED adminFrame

\* fetchTodayAttendance of the Dashboard settles: setLoadingAttendance(false).
PageLoaded ==
    /\ pageLoading
    /\ pageLoading' = FALSE
    /\ UNCHANGED <<userRole, roleFetch, loadData, pending, loading, stats,
                   dateFrom, dateTo, flights, internTotalHours, changes, failed>>
    /\ UNCHANGED adminFrame

\* <AdminDashboard /> is rendered for the first time: its state is
\* initialised and the effect starts loadData.
AdminMount ==
    /\ ShownView = "admin"
    /\ loadData = "unmounted"
    /\ loadData' = "awaiting"
    /\ loading' = TRUE
    /\ pending' = LoadDataFetches
    /\ dateFrom' = FirstOfMonth(rToday)
    /\ dateTo' = rToday
    /\ flights' = {[id |-> 0, from |-> FirstOfMonth(rToday), to |-> rToday]}
    /\ UNCHANGED <<userRole, pageLoading, roleFetch, stats, internTotalHours,
                   changes, failed>>
    /\ UNCHANGED adminFrame

\* fetchTodayAttendance of loadData settles.
AdminFetchTodayAttendance ==
    /\ "fetchTodayAttendance" \in pending
    /\ pending' = pending \ {"fetchTodayAttendance"}
    /\ \E ok \in BOOLEAN : \E pok \in BOOLEAN :
         LET attendanceData == TodayRows(rTable, rToday)
         IN  /\ (~ok \/ Len(attendanceData) = 0) => pok
             /\ stats' = IF ~ok \/ ~pok THEN stats
                         ELSE IF Len(attendanceData) = 0
                         THEN [checkedIn |-> 0, checkedOut |-> 0,
                               activeToday |-> 0]
                         ELSE TodayStats(attendanceData)
             /\ failed' = (failed \/ ~ok \/ ~pok)
    /\ UNCHANGED <<userRole, pageLoading, roleFetch, loadData, loading,
                   dateFrom, dateTo, flights, internTotalHours, changes>>
    /\ UNCHANGED adminFrame

\* fetchStats of loadData settles.
AdminFetchStats ==
    /\ "fetchStats" \in pending
    /\ pending' = pending \ {"fetchStats"}
    /\ \E okIn \in BOOLEAN : \E okOut \in BOOLEAN : \E okData \in BOOLEAN :
         /\ stats' = StatsOfToday(rTable, rToday, okIn, okOut, okData)
         /\ failed' = (failed \/ ~okIn \/ ~okOut \/ ~okData)
    /\ UNCHANGED <<userRole, pageLoading, roleFetch, loadData, loading,
                   dateFrom, dateTo, flights, internTotalHours, changes>>
    /\ UNCHANGED adminFrame

\* fetchUserProfiles of loadData settles; it ends with setLoading(false).
AdminFetchUserProfiles ==
    /\ "fetchUserProfiles" \in pending
    /\ pending' = pending \ {"fetchUserProfiles"}
    /\ loading' = FALSE
    /\ \E ok \in BOOLEAN : failed' = (failed \/ ~ok)
    /\ UNCHANGED <<userRole, pageLoading, roleFetch, loadData, stats,
                   dateFrom, dateTo, flights, internTotalHours, changes>>
    /\ UNCHANGED adminFrame

\* fetchWeeklyStats, fetchSchoolDistribution or fetchRecentSignups settles.
AdminFetchOther ==
    /\ \E f \in {"fetchWeeklyStats", "fetchSchoolDistribution",
                 "fetchRecentSignups"} :
         /\ f \in pending
         /\ pending' = pending \ {f}
    /\ \E ok \in BOOLEAN : failed' = (failed \/ ~ok)
    /\ UNCHANGED <<userRole, pageLoading, roleFetch, loadData, loading, stats,
                   dateFrom, dateTo, flights, internTotalHours, changes>>
    /\ UNCHANGED adminFrame

\* A call of fetchInternTotalHours settles: whichever call it is, it sets
\* internTotalHours from the range it was called with.
AdminFetchInternTotalHours ==
    /\ \E f \in flights :
         /\ flights' = flights \ {f}
         /\ pending' = IF f.id = 0 THEN pending \ {"fetchInternTotalHours"}
                       ELSE pending
         /\ \E ok \in BOOLEAN : \E pok \in BOOLEAN :
              LET attendanceData ==
                      IF ok THEN CompletedInRange(rTable, f.from, f.to)
                      ELSE <<>>
                  present == IF pok THEN rProfiles ELSE {}
              IN  /\ Len(attendanceData) = 0 => pok
                  /\ internTotalHours' =
                         InternTotalHours(attendanceData, present)
                  /\ failed' = (failed \/ ~ok \/ ~pok)
    /\ UNCHANGED <<userRole, pageLoading, roleFetch, loadData, loading, stats,
                   dateFrom, dateTo, changes>>
    /\ UNCHANGED adminFrame

\* await Promise.all([...]) of loadData resumes: setLoading(false).
LoadDataDone ==
    /\ loadData = "awaiting"
    /\ pending = {}
    /\ loadData' = "done"
    /\ loading' = FALSE
    /\ UNCHANGED <<userRole, pageLoading, roleFetch, pending, stats, dateFrom,
                   dateTo, flights, internTotalHours, changes, failed>>
    /\ UNCHANGED adminFrame

\* The admin picks another From date.
handleDateFromChange ==
    /\ loadData # "unmounted"
    /\ changes < MaxRangeChanges
    /\ \E newFrom \in ReportDates \ {dateFrom} :
         /\ dateFrom' = newFrom
         /\ flights' = flights \cup
                 {[id |-> changes + 1, from |-> newFrom, to |-> dateTo]}
    /\ changes' = changes + 1
    /\ UNCHANGED <<userRole, pageLoading, roleFetch, loadData, pending,
                   loading, stats, dateTo, internTotalHours, failed>>
    /\ UNCHANGED adminFrame

\* The admin picks another To date.
handleDateToChange ==
    /\ loadData # "unmounted"
    /\ changes < MaxRangeChanges
    /\ \E newTo \in ReportDates \ {dateTo} :
         /\ dateTo' = newTo
         /\ flights' = flights \cup
                 {[id |-> changes + 1, from |-> dateFrom, to |-> newTo]}
    /\ changes' = changes + 1
    /\ UNCHANGED <<userRole, pageLoading, roleFetch, loadData, pending,
                   loading, stats, dateFrom, internTotalHours, failed>>
    /\ UNCHANGED adminFrame

\* The admin clicks "This month".
handleThisMonth ==
    /\ loadData # "unmounted"
    /\ changes < MaxRangeChanges
    /\ dateFrom' = FirstOfMonth(rToday)
    /\ dateTo' = rToday
    /\ flights' = flights \cup
            {[id |-> changes + 1, from |-> FirstOfMonth(rToday), to |-> rToday]}
    /\ changes' = changes + 1
    /\ UNCHANGED <<userRole, pageLoading, roleFetch, loadData, pending,
                   loading, stats, internTotalHours, failed>>
    /\ UNCHANGED adminFrame

AdminNext ==
    \/ FetchUserRole
    \/ PageLoaded
    \/ AdminMount
    \/ AdminFetchTodayAttendance
    \/ AdminFetchStats
    \/ AdminFetchUserProfiles
    \/ AdminFetchOther
    \/ AdminFetchInternTotalHours
    \/ LoadDataDone
    \/ handleDateFromChange
    \/ handleDateToChange
    \/ handleThisMonth

AdminSpec == AdminInit /\ [][AdminNext]_vars

(***************************************************************************)
(* The service worker between the page and the store: every request of the *)
(* page raises a fetch event, which looks the request up in the cache,     *)
(* issues the network fetch and answers with the cached response if there  *)
(* is one and with the outcome of the network fetch otherwise.  Only the   *)
(* page of client 1 takes steps.                                           *)
(***************************************************************************)
MaxRequests == 8

\* The requests of the page.
SwUrl(user, date, id) ==
    [table |-> "attendance_records", user_id |-> user, date |-> date, id |-> id]

\* .select('*').eq('user_id', user.id).eq('date', today).maybeSingle()
TodayRequest(user, date) == [method |-> "GET", url |-> SwUrl(user, date, 0)]

\* .insert({...})
InsertRequest == [method |-> "POST", url |-> SwUrl(0, 0, 0)]

\* .update({ check_out: now }).eq('id', todayAttendance.id)
UpdateRequest(id) == [method |-> "PATCH", url |-> SwUrl(0, 0, id)]

\* Response.error()
ResponseError == [status |-> 0, body |-> {}]

\* What the network fetch of a select can bring: the rows with status 200,
\* a server error, or nothing (the fetch rejects).
SelectOutcomes(rows) ==
    {{[status |-> 200, body |-> rows]}, {[status |-> 500, body |-> {}]}, {}}

\* What the network fetch of an insert or update brings, given the store's
\* answer to the page.
MutationOutcomes(method, answer) ==
    IF answer = "ok"
    THEN {{[status |-> IF method = "POST" THEN 201 ELSE 204, body |-> {}]}}
    ELSE IF answer = "duplicate" THEN {{[status |-> 409, body |-> {}]}}
    ELSE {{[status |-> 500, body |-> {}]}, {}}

\* The data supabase hands to the page for a response.
DataOf(response) == IF response.status = 200 THEN response.body ELSE {}

\* cache.match(event.request): the response stored for the URL of a GET.
CacheMatch(cache, request) ==
    IF request.method # "GET" THEN {}
    ELSE {e.response : e \in {c \in cache : c.request.url = request.url}}

\* A worker that stores the response of every GET.
ShouldPut_AnyStatus(request, networkResponse) == request.method = "GET"

\* event.request.method === 'GET' && networkResponse &&
\* networkResponse.status === 200
ShouldPut(request, networkResponse) ==
    request.method = "GET" /\ networkResponse.status = 200

\* cache.put(event.request, networkResponse.clone())
CachePut(cache, request, networkResponse) ==
    {c \in cache : c.request.url # request.url}
        \cup {[request |-> request, response |-> networkResponse]}

\* The cache after the network fetch has settled with `net`: {} when the
\* fetch rejected, else the set of the one response.
CacheAfter(cache, request, net) ==
    IF net # {} /\ ShouldPut(request, CHOOSE r \in net : TRUE)
    THEN CachePut(cache, request, CHOOSE r \in net : TRUE)
    ELSE cache

\* A worker that answers with the network response even on a hit.
RespondsFrom_NetworkFirst(response) == "network"

\* return response || fetchPromise
RespondsFrom(response) == IF response # {} THEN "cache" ELSE "network"

\* The answer respondWith gets from the cache.
CacheAnswer(response) ==
    [source |-> "cache", matched |-> response, net |-> {},
     response |-> CHOOSE r \in response : TRUE]

\* What fetchPromise resolves to: the network response, or on rejection
\* response || Response.error().
NetworkAnswer(response, net) ==
    [source |-> "network", matched |-> response, net |-> net,
     response |-> IF net # {} THEN CHOOSE r \in net : TRUE
                  ELSE IF response # {} THEN CHOOSE r \in response : TRUE
                  ELSE ResponseError]

\* The network fetch the worker issues for a request; `waited` tells whether
\* the page that sent the request still exists.
Flight(id, t, request, waited) ==
    [id |-> id, tab |-> t, request |-> request,
     matched |-> CacheMatch(swCache, request),
     waits |-> waited /\ RespondsFrom(CacheMatch(swCache, request)) = "network"]

\* The fetch event of one request of the page of t.
Intercept(t, request) ==
    /\ swRequests < MaxRequests
    /\ swRequests' = swRequests + 1
    /\ swFetches' = swFetches + 1
    /\ swFlights' = swFlights \cup {Flight(swFetches + 1, t, request, TRUE)}
    /\ swAnswer' = [swAnswer EXCEPT ![t] =
            IF RespondsFrom(CacheMatch(swCache, request)) = "cache"
            THEN {CacheAnswer(CacheMatch(swCache, request))}
            ELSE {}]
    /\ UNCHANGED swCache

\* The fetch events of fetchTodayAttendance() followed by
\* window.location.reload(): the select of the page that goes away reaches
\* the worker or not, the select of the new page does.
InterceptReload(t, request) ==
    \E early \in BOOLEAN :
       /\ swRequests + (IF early THEN 2 ELSE 1) <= MaxRequests
       /\ swRequests' = swRequests + (IF early THEN 2 ELSE 1)
       /\ swFetches' = swFetches + (IF early THEN 2 ELSE 1)
       /\ swFlights' = swFlights
             \cup (IF early THEN {Flight(swFetches + 2, t, request, FALSE)}
                   ELSE {})
             \cup {Flight(swFetches + 1, t, request, TRUE)}
       /\ swAnswer' = [swAnswer EXCEPT ![t] =
               IF RespondsFrom(CacheMatch(swCache, request)) = "cache"
               THEN {CacheAnswer(CacheMatch(swCache, request))}
               ELSE {}]
       /\ UNCHANGED swCache

SwInit ==
    /\ AppInit
    /\ skew = [t \in Tabs |-> 0]
    /\ GateIdle
    /\ DurationIdle
    /\ ReportIdle
    /\ AdminIdle
    /\ swCache = {}
    /\ swFlights = {[id |-> 1, tab |-> 1,
                     request |-> TodayRequest(UserOf(1), FormatDate(0)),
                     matched |-> {}, waits |-> TRUE]}
    /\ swAnswer = [t \in Tabs |-> {}]
    /\ swRequests = 1
    /\ swFetches = 1

\* The clients whose page takes steps.
SwTabs == {1}

SwTick == Tick /\ UNCHANGED swVars

\* The user reloads the page: its select raises a fetch event.
SwReload(t) ==
    /\ Reload(t)
    /\ Intercept(t, TodayRequest(UserOf(t), FormatDate(Now(t))))

\* The network fetch of a select settles: the cache is refreshed, and a page
\* that waits for it is answered.
SwNetworkSelect ==
    /\ \E f \in swFlights :
         /\ f.request.method = "GET"
         /\ \E net \in SelectOutcomes(RowsFor(f.request.url.user_id,
                                              f.request.url.date)) :
              /\ swCache' = CacheAfter(swCache, f.request, net)
              /\ swAnswer' = IF f.waits
                             THEN [swAnswer EXCEPT ![f.tab] =
                                      {NetworkAnswer(f.matched, net)}]
                             ELSE swAnswer
         /\ swFlights' = swFlights \ {f}
    /\ UNCHANGED <<swRequests, swFetches>>
    /\ UNCHANGED <<appVars, pureVars>>

\* fetchTodayAttendance resumes with the response the worker handed over.
SwFetchDone(t) ==
    /\ swAnswer[t] # {}
    /\ \E a \in swAnswer[t] : FetchAnswered(t, DataOf(a.response))
    /\ swAnswer' = [swAnswer EXCEPT ![t] = {}]
    /\ UNCHANGED <<swCache, swFlights, swRequests, swFetches>>

SwCheckInClick(t) == CheckInClick(t) /\ UNCHANGED swVars

\* handleCheckIn issues the insert: its fetch event.
SwCheckInSend(t) == CheckInSend(t) /\ Intercept(t, InsertRequest)

\* The network fetch of an insert or update of t settles.
MutationSettles(t, method) ==
    \E f \in swFlights :
       /\ f.tab = t
       /\ f.request.method = method
       /\ \E net \in MutationOutcomes(method, resp'[t]) :
            /\ swCache' = CacheAfter(swCache, f.request, net)
            /\ swAnswer' = [swAnswer EXCEPT ![t] =
                               {NetworkAnswer(f.matched, net)}]
       /\ swFlights' = swFlights \ {f}
       /\ UNCHANGED <<swRequests, swFetches>>

SwStoreInsert(t) == StoreInsert(t) /\ MutationSettles(t, "POST")

\* handleCheckIn resumes; on success the page is replaced.
SwCheckInResponse(t) ==
    /\ CheckInResponse(t)
    /\ IF resp[t] = "ok"
       THEN InterceptReload(t, TodayRequest(UserOf(t), FormatDate(Now(t))))
       ELSE /\ swAnswer' = [swAnswer EXCEPT ![t] = {}]
            /\ UNCHANGED <<swCache, swFlights, swRequests, swFetches>>

\* handleCheckOut issues the update: its fetch event.
SwCheckOutClick(t) ==
    /\ CheckOutClick(t)
    /\ Intercept(t, UpdateRequest((CHOOSE a \in todayAttendance[t] : TRUE).id))

SwStoreUpdate(t) == StoreUpdate(t) /\ MutationSettles(t, "PATCH")

\* handleCheckOut resumes; on success the page is replaced.
SwCheckOutResponse(t) ==
    /\ CheckOutResponse(t)
    /\ IF resp[t] = "ok"
       THEN InterceptReload(t, TodayRequest(UserOf(t), FormatDate(Now(t))))
       ELSE /\ swAnswer' = [swAnswer EXCEPT ![t] = {}]
            /\ UNCHANGED <<swCache, swFlights, swRequests, swFetches>>

SwNext ==
    \/ SwTick
    \/ SwNetworkSelect
    \/ \E t \in SwTabs : SwReload(t)
    \/ \E t \in SwTabs : SwFetchDone(t)
    \/ \E t \in SwTabs : SwCheckInClick(t)
    \/ \E t \in SwTabs : SwCheckInSend(t)
    \/ \E t \in SwTabs : SwStoreInsert(t)
    \/ \E t \in SwTabs : SwCheckInResponse(t)
    \/ \E t \in SwTabs : SwCheckOutClick(t)
    \/ \E t \in SwTabs : SwStoreUpdate(t)
    \/ \E t \in SwTabs : SwCheckOutResponse(t)

SwSpec == SwInit /\ [][SwNext]_vars

(***************************************************************************)
(* Properties of the store and of the check-in / check-out handlers.       *)
(***************************************************************************)
\* An instant lies in a window when its clock time, to the minute, lies
\* between the bounds of the window.
InWindow(now, timeWindow) ==
    LET m == (now % SecondsPerDay) \div 60
    IN  MinuteOfDay(timeWindow.start) <= m /\ m <= MinuteOfDay(timeWindow.end)

\* C1: the store never holds two attendance records with the same
\* (subject, date), whatever the interleaving of the clients' check-ins.
C1_OneRecordPerSubjectDate ==
    \A r1 \in store : \A r2 \in store :
        (r1.user_id = r2.user_id /\ r1.date = r2.date) => r1 = r2

\* A second check-in for a (subject, date) that has a record was attempted
\* and the store has answered it.
C1_Witness ==
    \E t \in Tabs :
        /\ pc[t] = "ci_resp"
        /\ resp[t] = "duplicate"
        /\ RowsFor(UserOf(t), ciToday[t]) # {}

\* C2: of two check-ins for the same subject and date that race, one insert
\* succeeds and the other is rejected by the store; the rejected caller
\* shows an error, creates no record, does not report success and does not
\* issue the insert again.
C2_RaceLoserGetsError ==
    /\ \A t \in Tabs : sends[t] <= 1
    /\ Cardinality(store) = nextId - 1
    /\ \A t \in Tabs :
         (pc[t] = "ci_resp" /\ resp[t] = "duplicate") =>
            Cardinality(RowsFor(UserOf(t), ciToday[t])) = 1
    /\ \A t \in Tabs :
         (pc[t] = "idle" /\ resp[t] = "duplicate") => toast[t] = "Error"
    /\ \A t \in Tabs : \A u \in Tabs \ {t} :
         (/\ pc[t] = "ci_resp" /\ pc[u] = "ci_resp"
          /\ UserOf(t) = UserOf(u) /\ ciToday[t] = ciToday[u])
         => ~(resp[t] = "ok" /\ resp[u] = "ok")

\* Two inserts for the same key were in flight together; one was accepted,
\* the other rejected, and the rejected caller has shown its error.
C2_Witness ==
    \E t \in Tabs :
        /\ raced[t]
        /\ resp[t] = "duplicate"
        /\ pc[t] = "idle"
        /\ toast[t] = "Error"
        /\ sends[t] = 1

\* C3: every record is created at an instant inside the check-in window and
\* every checkOut is set at an instant inside the check-out window, the
\* instant being the one the handler reads when it issues the mutation.
C3_TransitionsInsideWindows ==
    \A r \in store :
        /\ InWindow(r.check_in, CHECK_IN_WINDOW)
        /\ r.check_out # NoTime => InWindow(r.check_out, CHECK_OUT_WINDOW)

\* C4: once a record is checked out, no later check-out changes its
\* checkOut.
C4_CheckOutSetOnce ==
    [][\A r \in store :
          r.check_out # NoTime =>
             \A q \in store' : q.id = r.id => q.check_out = r.check_out]_vars

\* C5: the check-in gate answers TRUE exactly when there is no record for
\* today and the instant lies within the check-in window of its day, both
\* bounds included.
C5_CanCheckInIff ==
    gResult.applied =>
        (gResult.canCheckIn <=> (gExisting = {} /\ InWindow(gNow, gWindow)))

\* The gate was applied at the last minute of the configured check-in
\* window, off the full minute, with no record for today, and answered TRUE.
C5_Witness ==
    /\ gResult.applied
    /\ gResult.canCheckIn
    /\ gWindow = CHECK_IN_WINDOW
    /\ gNow = AtClockTime(gNow, gWindow.end) + 30

\* C6 as stated: for any window the check-in gate is FALSE one minute
\* before the window starts, TRUE when it starts, TRUE when it ends and
\* FALSE one minute after it ends.
C6_BoundariesAnyWindow ==
    gResult.probed =>
        /\ ~gResult.before
        /\ gResult.atStart
        /\ gResult.atEnd
        /\ ~gResult.after

\* The window that covers the whole day, 00:00 to 23:59.
WholeDay(timeWindow) ==
    MinuteOfDay(timeWindow.start) = 0 /\ MinuteOfDay(timeWindow.end) = 1439

\* C6 as amended: for any window other than the whole day the check-in gate
\* is FALSE one minute before the window starts, TRUE when it starts, TRUE
\* when it ends and FALSE one minute after it ends.
C6_Boundaries ==
    (gResult.probed /\ ~WholeDay(gWindow)) =>
        /\ ~gResult.before
        /\ gResult.atStart
        /\ gResult.atEnd
        /\ ~gResult.after

\* The four boundary instants of a window that starts at midnight (its
\* minute before lies on the previous day) have been probed.
C6_Witness ==
    /\ gResult.probed
    /\ MinuteOfDay(gWindow.start) = 0
    /\ ~WholeDay(gWindow)
    /\ gResult.atStart
    /\ gResult.atEnd

\* C7: the check-out gate answers TRUE exactly when there is a record for
\* today, its checkOut is absent and the instant lies within the check-out
\* window of its day.
C7_CanCheckOutIff ==
    gResult.applied =>
        (gResult.canCheckOut <=>
            /\ gExisting # {}
            /\ \A r \in gExisting : r.check_out = NoTime
            /\ InWindow(gNow, gWindow))

\* The gate was applied inside the configured check-out window to an open
\* record and answered TRUE.
C7_Witness ==
    /\ gResult.applied
    /\ gResult.canCheckOut
    /\ gWindow = CHECK_OUT_WINDOW
    /\ gExisting = {GateRecord(gNow, NoTime)}

\* C8: every record whose checkOut is present has checkOut strictly later
\* than checkIn.
C8_CheckOutAfterCheckIn ==
    \A r \in store : r.check_out # NoTime => r.check_out > r.check_in

\* C9: every record's date is the local calendar date of its checkIn.
C9_DateIsDateOfCheckIn ==
    \A r \in store : r.date = FormatDate(r.check_in)

\* C10: after the date has rolled over, a check-out never sets checkOut on
\* the record of the previous date: every checkOut lies on the date of its
\* record.
C10_CheckOutOnRecordDate ==
    \A r \in store : r.check_out # NoTime => FormatDate(r.check_out) = r.date

(***************************************************************************)
(* Properties of calculateDuration.                                        *)
(***************************************************************************)
\* The hours and the minutes read back from a text "<H>h <M>m", as
\* parseInt reads the parts between the spaces; {} when there is none.
ParsedHours(text) ==
    LET parts == SplitOnSpace(text)
    IN  IF Len(parts) >= 1 THEN parseInt(parts[1]) ELSE {}

ParsedMinutes(text) ==
    LET parts == SplitOnSpace(text)
    IN  IF Len(parts) >= 2 THEN parseInt(parts[2]) ELSE {}

\* The text has the form "<H>h <M>m" with 0 <= M < 60 and H * 60 + M the
\* whole minutes of d milliseconds.
WholeMinutesOf(text, d) ==
    /\ Len(SplitOnSpace(text)) = 2
    /\ ParsedHours(text) # {}
    /\ ParsedMinutes(text) # {}
    /\ \A h \in ParsedHours(text) : \A m \in ParsedMinutes(text) :
         /\ 0 <= m /\ m < 60
         /\ h * 60 + m = d \div MsPerMinute
         /\ text = HoursMinutesText(h, m)

\* C11: whenever checkOut is absent, calculateDuration (both copies) returns
\* 'In Progress', whatever checkIn is, and so no numeric duration.
C11_OpenSessionInProgress ==
    (dResult.applied /\ dOut = NoTime) =>
        /\ dResult.text = InProgress
        /\ dResult.history = InProgress
        /\ ParsedHours(dResult.text) = {}

\* calculateDuration was applied to an open session that started at 23:00.
C11_Witness ==
    /\ dResult.applied
    /\ dOut = NoTime
    /\ dIn = AtMs(1, 23, 0, 0, 0)
    /\ dResult.text = InProgress

\* C12: for checkOut >= checkIn the result is "<H>h <M>m" with 0 <= M < 60
\* and H * 60 + M = floor((checkOut - checkIn) / one minute): seconds and
\* milliseconds are dropped, never rounded up.
C12_FloorToMinutes ==
    (dResult.applied /\ dOut # NoTime /\ dOut >= dIn) =>
        /\ WholeMinutesOf(dResult.text, dOut - dIn)
        /\ WholeMinutesOf(dResult.history, dOut - dIn)

\* 09:00:00.000 to 17:30:59.999 has given "8h 30m".
C12_Witness ==
    /\ dResult.applied
    /\ dIn = AtMs(1, 9, 0, 0, 0)
    /\ dOut = AtMs(1, 17, 30, 59, 999)
    /\ dResult.text = <<"8", "h", " ", "3", "0", "m">>

\* C13: the result depends on the elapsed time only (displacing both
\* instants by the same amount does not change it); Day1 23:00 to Day2 01:00
\* gives "2h 0m"; a session of 24 hours or more gives its full hour count.
C13_ElapsedTimeOnly ==
    (dResult.applied /\ dOut # NoTime) =>
        /\ dResult.text = dResult.shifted
        /\ (dIn = AtMs(1, 23, 0, 0, 0) /\ dOut = AtMs(2, 1, 0, 0, 0)) =>
              dResult.text = <<"2", "h", " ", "0", "m">>
        /\ (dOut - dIn >= MsPerDay) =>
              /\ ParsedHours(dResult.text) = {(dOut - dIn) \div MsPerHour}
              /\ \A h \in ParsedHours(dResult.text) : h >= 24

\* A session over midnight, and the same session displaced by 7 h 1.234 s,
\* have both given "2h 0m".
C13_Witness ==
    /\ dResult.applied
    /\ dIn = AtMs(1, 23, 0, 0, 0)
    /\ dOut = AtMs(2, 1, 0, 0, 0)
    /\ dShift = 7 * MsPerHour + 1234
    /\ dResult.shifted = <<"2", "h", " ", "0", "m">>

\* What a call that fails with InvalidIntervalError leaves instead of a text.
InvalidIntervalError == <<"InvalidIntervalError">>

\* C14: for a record whose checkOut is earlier than its checkIn,
\* calculateDuration fails with InvalidIntervalError and yields no formatted
\* duration.
C14_InvalidIntervalRejected ==
    (dResult.applied /\ dOut # NoTime /\ dOut < dIn) =>
        /\ dResult.text = InvalidIntervalError
        /\ dResult.history = InvalidIntervalError

(***************************************************************************)
(* Properties of the admin reports.                                        *)
(***************************************************************************)
\* The positions in the table of the completed records of subject u with a
\* date in [rFrom, rTo].
CompletedOf(u) ==
    {i \in 1..Len(rTable) :
        /\ rTable[i].user_id = u
        /\ rFrom <= rTable[i].date /\ rTable[i].date <= rTo
        /\ rTable[i].check_out # NoTime}

RECURSIVE ElapsedOver(_)
ElapsedOver(positions) ==
    IF positions = {} THEN 0
    ELSE LET i == CHOOSE k \in positions : TRUE
         IN  (rTable[i].check_out - rTable[i].check_in)
                 + ElapsedOver(positions \ {i})

\* The milliseconds subject u has completed in the range.
CompletedMs(u) == ElapsedOver(CompletedOf(u))

\* The subjects with at least one completed record in the range.
CompletedSubjects == {u \in ReportUsers : CompletedOf(u) # {}}

\* The totals have been fetched and the attendance select was answered.
TotalsFetched == rResult.fetched = "totals" /\ rResult.answered

\* C15: the aggregate has exactly one row per subject with at least one
\* completed record in [fromDate, toDate]: no subject twice, none for a
\* subject without completed records in range, and open records add
\* nothing to a (non-negative) total.
C15_OneRowPerCompletedSubject ==
    TotalsFetched =>
        LET rows == rResult.internTotalHours
        IN  /\ {rows[i].userId : i \in 1..Len(rows)} = CompletedSubjects
            /\ Len(rows) = Cardinality(CompletedSubjects)
            /\ \A i \in 1..Len(rows) :
                 CompletedMs(rows[i].userId) >= 0 =>
                    WholeMinutesOf(rows[i].totalHours, CompletedMs(rows[i].userId))

\* Of three records in range, two completed ones of one subject and an open
\* one of another subject have given a single row.
C15_Witness ==
    /\ TotalsFetched
    /\ Len(rTable) = 3
    /\ rFrom = 1
    /\ Len(rResult.internTotalHours) = 1
    /\ \E u \in ReportUsers : Cardinality(CompletedOf(u)) = 2
    /\ \E i \in 1..3 : rTable[i].check_out = NoTime

\* C16: the total of every row is "<H>h <M>m" with 0 <= M < 60 and
\* H * 60 + M the whole minutes of the sum of the subject's durations.
C16_TotalIsFloorOfSum ==
    TotalsFetched =>
        \A i \in 1..Len(rResult.internTotalHours) :
            WholeMinutesOf(rResult.internTotalHours[i].totalHours,
                           CompletedMs(rResult.internTotalHours[i].userId))

\* The position in the table of the first completed record in range of u.
FirstCompleted(u) ==
    CHOOSE i \in CompletedOf(u) : \A j \in CompletedOf(u) : i <= j

\* The whole hours subject u has completed in the range.
WholeHours(u) == CompletedMs(u) \div MsPerHour

\* C17: the rows are in non-increasing order of whole hours, and rows with
\* equal whole hours are in the order in which their subjects first appear
\* in the records.
C17_SortedByHoursStable ==
    TotalsFetched =>
        LET rows == rResult.internTotalHours
        IN  \A i \in 1..Len(rows) : \A j \in 1..Len(rows) :
              i < j =>
                /\ WholeHours(rows[i].userId) >= WholeHours(rows[j].userId)
                /\ WholeHours(rows[i].userId) = WholeHours(rows[j].userId) =>
                      FirstCompleted(rows[i].userId) < FirstCompleted(rows[j].userId)

\* Three rows: the subject met first has the fewest hours and comes last;
\* the other two have equal hours, the one with fewer minutes was met first
\* and stays first.
C17_Witness ==
    /\ TotalsFetched
    /\ Len(rResult.internTotalHours) = 3
    /\ LET rows == rResult.internTotalHours
       IN  /\ FirstCompleted(rows[3].userId) = 1
           /\ WholeHours(rows[1].userId) = WholeHours(rows[2].userId)
           /\ WholeHours(rows[2].userId) > WholeHours(rows[3].userId)
           /\ MinutesOf(rows[1]) < MinutesOf(rows[2])

\* The number of rows of the table with a given date.
RowsOn(date) == Cardinality({i \in 1..Len(rTable) : rTable[i].date = date})

\* The number of those with check_out present.
CheckedOutOn(date) ==
    Cardinality({i \in 1..Len(rTable) :
                    rTable[i].date = date /\ rTable[i].check_out # NoTime})

RECURSIVE SumCheckIns(_)
SumCheckIns(entries) ==
    IF entries = <<>> THEN 0 ELSE Head(entries).checkIns + SumCheckIns(Tail(entries))

\* C18: the weekly statistics have one entry per date of the seven days up
\* to today, in ascending order; with the select answered, checkIns is the
\* number of records of the date and checkOuts the number of those with
\* check_out present, and the checkIns add up to the number of records in
\* the range; with the result unavailable every entry is 0, 0.
C18_OneEntryPerDate ==
    rResult.fetched = "weekly" =>
        LET entries == rResult.weeklyStats
        IN  /\ Len(entries) = 7
            /\ \A i \in 1..Len(entries) :
                 LET date == rToday - 7 + i
                 IN  /\ entries[i].date = FormatWeekday(date)
                     /\ entries[i].checkOuts <= entries[i].checkIns
                     /\ rResult.answered =>
                           /\ entries[i].checkIns = RowsOn(date)
                           /\ entries[i].checkOuts = CheckedOutOn(date)
                     /\ ~rResult.answered =>
                           /\ entries[i].checkIns = 0
                           /\ entries[i].checkOuts = 0
            /\ rResult.answered =>
                  SumCheckIns(entries) =
                      Cardinality({i \in 1..Len(rTable) :
                                      /\ rTable[i].date >= rToday - 6
                                      /\ rTable[i].date <= rToday})

\* The week from day 2 to day 8: the table has a record of day 1, outside
\* the week, and two of day 2, one of them checked out.
C18_Witness ==
    /\ rResult.fetched = "weekly"
    /\ rResult.answered
    /\ rToday = 8
    /\ Len(rTable) = 3
    /\ RowsOn(1) = 1
    /\ rResult.weeklyStats[1].checkIns = 2
    /\ rResult.weeklyStats[1].checkOuts = 1
    /\ rResult.weeklyStats[7].checkIns = 0

\* C19: a subject with records whose profile the lookup does not return
\* still has its row, in the totals and in today's list, with the name
\* "Unknown User" and the institution "Not specified"; the number of rows
\* is that of the subjects (of the records) whatever profiles are missing.
C19_MissingProfilePlaceholder ==
    /\ TotalsFetched =>
         LET rows == rResult.internTotalHours
             returned == IF rResult.profilesAnswered THEN rProfiles ELSE {}
         IN  /\ Len(rows) = Cardinality(CompletedSubjects)
             /\ \A u \in CompletedSubjects :
                  \E i \in 1..Len(rows) :
                     /\ rows[i].userId = u
                     /\ u \notin returned =>
                           /\ rows[i].fullName = "Unknown User"
                           /\ rows[i].school = "Not specified"
                     /\ u \in returned => rows[i].fullName = ProfileNames[u]
    /\ (rResult.fetched = "today" /\ rResult.answered /\ rResult.profilesAnswered) =>
         LET rows == rResult.todayRecords
         IN  /\ Len(rows) = RowsOn(rToday)
             /\ \A i \in 1..Len(rows) :
                  /\ rows[i].record.user_id \notin rProfiles =>
                        /\ rows[i].profiles.full_name = "Unknown User"
                        /\ rows[i].profiles.school = "Not specified"
                  /\ rows[i].record.user_id \in rProfiles =>
                        rows[i].profiles.full_name = ProfileNames[rows[i].record.user_id]

\* Only subject 1 has a profile: the totals have a row named after it and a
\* row "Unknown User".
C19_Witness ==
    /\ TotalsFetched
    /\ rResult.profilesAnswered
    /\ rProfiles = {1}
    /\ \E i \in 1..Len(rResult.internTotalHours) :
          rResult.internTotalHours[i].fullName = "Unknown User"
    /\ \E i \in 1..Len(rResult.internTotalHours) :
          rResult.internTotalHours[i].fullName = "Ana"

\* C20: for a subject with a single completed record in range, of d >= 0
\* milliseconds, the hours and minutes read back from the formatted total
\* give t with 0 <= d - t < one minute.
C20_RoundTripWithinOneMinute ==
    TotalsFetched =>
        \A i \in 1..Len(rResult.internTotalHours) :
            LET row == rResult.internTotalHours[i]
                d == CompletedMs(row.userId)
            IN  (Cardinality(CompletedOf(row.userId)) = 1 /\ d >= 0) =>
                   /\ ParsedHours(row.totalHours) # {}
                   /\ ParsedMinutes(row.totalHours) # {}
                   /\ \A h \in ParsedHours(row.totalHours) :
                      \A m \in ParsedMinutes(row.totalHours) :
                         LET t == h * MsPerHour + m * MsPerMinute
                         IN  0 <= d - t /\ d - t < MsPerMinute

\* A single record of 2 h 30 min 59.999 s has given "2h 30m".
C20_Witness ==
    /\ TotalsFetched
    /\ Len(rTable) = 1
    /\ rTable[1].check_out - rTable[1].check_in = 151 * MsPerMinute - 1
    /\ Len(rResult.internTotalHours) = 1
    /\ rResult.internTotalHours[1].totalHours = <<"2", "h", " ", "3", "0", "m">>

(***************************************************************************)
(* Properties of error reporting and of the frame of the mutations.        *)
(***************************************************************************)
\* C21: a failed operation is reported and not retried, and is not presented
\* as a result: when the lookup of today's record ends without the record
\* although the store holds it (the select failed), the page shows an error
\* and does not present the subject as having no record; when an insert or
\* an update was not accepted, the handler ends with the error toast and
\* has not issued the request again.
C21_FailuresReported ==
    [][\A t \in Tabs :
          /\ (/\ pc[t] = "fetch" /\ pc'[t] = "idle"
              /\ RowsFor(UserOf(t), fetchDate[t]) # {}
              /\ todayAttendance'[t] = {})
             => (/\ toast'[t] = "Error"
                 /\ view'[t] \notin {"checkInButton", "checkInClosed"})
          /\ (/\ pc[t] \in {"ci_resp", "co_resp"} /\ pc'[t] = "idle"
              /\ resp[t] # "ok")
             => (toast'[t] = "Error" /\ sends'[t] <= 1)]_vars

\* C22: a step of the application leaves the id, user_id, date and check_in
\* of every record as they are and removes no record; it changes at most one
\* record, and only by an update of a client whose todayAttendance is that
\* record.
C22_CheckOutChangesOnlyCheckOut ==
    [][/\ \A r \in store : \E q \in store' :
             /\ q.id = r.id
             /\ q.user_id = r.user_id
             /\ q.date = r.date
             /\ q.check_in = r.check_in
       /\ Cardinality(store') >= Cardinality(store)
       /\ Cardinality({r \in store : r \notin store'}) <= 1
       /\ \A r \in store :
             r \notin store' =>
                \E t \in Tabs :
                   /\ pc[t] = "co_wait"
                   /\ \E a \in todayAttendance[t] : a.id = r.id]_vars

\* Two records are in the store, one of them checked out and the other
\* still open.
C22_Witness ==
    /\ Cardinality(store) = 2
    /\ \E r \in store : r.check_out # NoTime
    /\ \E r \in store : r.check_out = NoTime

(***************************************************************************)
(* Properties of the admin's session.                                      *)
(***************************************************************************)
\* C24: the view is selected by the role: once the page has loaded and the
\* role has been fetched, the admin view is shown exactly to a user who
\* holds the admin role in user_roles, whether or not the user also holds
\* the 'user' role.
C24_AdminViewIffAdminRole ==
    (~pageLoading /\ roleFetch = "settled" /\ ~failed)
        => (ShownView = "admin" <=> "admin" \in userRoles)

\* C25: once loadData is done and no fetchInternTotalHours call is in
\* flight, the totals displayed are those of the selected
\* [dateFrom, dateTo].
C25_TotalsOfLastRange ==
    (loadData = "done" /\ flights = {} /\ changes > 0 /\ ~failed)
        => internTotalHours =
               InternTotalHours(CompletedInRange(rTable, dateFrom, dateTo),
                                rProfiles)

\* C26: once fetchTodayAttendance and fetchStats of the initial load have
\* both settled, the stats are the counts of today's records whatever the
\* order of the two, and activeToday is the number of today's records
\* without check_out.
C26_StatsOrderIndependent ==
    (/\ loadData # "unmounted"
     /\ "fetchTodayAttendance" \notin pending
     /\ "fetchStats" \notin pending
     /\ ~failed)
        => stats = TodayStats(TodayRows(rTable, rToday))

\* C27: while loadData awaits its fetches and one of them is still pending,
\* loading is true.
C27_LoadingUntilAllSettled ==
    (loadData = "awaiting" /\ pending # {}) => loading

(***************************************************************************)
(* Properties of the service worker.                                       *)
(***************************************************************************)
\* C23: when the re-fetch of today's record completes with an answered
\* select while the store holds the record of the check-in, the page
\* presents that record: check-in is not offered, and check-out is not
\* offered once the record has a check_out.
C23_RefetchShowsRecord ==
    [][\A t \in SwTabs :
          (/\ pc[t] = "fetch" /\ pc'[t] = "idle"
           /\ \E a \in swAnswer[t] : a.response.status = 200
           /\ RowsFor(UserOf(t), fetchDate[t]) # {})
          => /\ todayAttendance'[t] = RowsFor(UserOf(t), fetchDate[t])
             /\ view'[t] # "checkInButton"
             /\ \A r \in RowsFor(UserOf(t), fetchDate[t]) :
                   r.check_out # NoTime => view'[t] # "checkOutButton"]_vars

\* C28: every entry of the cache is the response with status 200 of a GET,
\* and a step of the worker leaves every entry in place or replaces it by
\* such a response for the same URL.
C28_CacheHoldsOnlyGet200 ==
    /\ [](\A e \in swCache :
             e.request.method = "GET" /\ e.response.status = 200)
    /\ [][\A e \in swCache :
             \/ e \in swCache'
             \/ \E c \in swCache' :
                   /\ c.request.url = e.request.url
                   /\ c.request.method = "GET"
                   /\ c.response.status = 200]_vars

\* The cache holds an entry and a network fetch has just settled with a
\* status other than 200 or has failed.
C28_Witness ==
    /\ swCache # {}
    /\ \E t \in Tabs : \E a \in swAnswer[t] :
          a.source = "network" /\ a.response.status # 200

\* C29: the response handed to the page is the cached entry when the match
\* found one, the network response when it found none, and an error
\* response when it found none and the network fetch failed; the worker has
\* issued one network fetch per request.
C29_AnswerPerRequest ==
    /\ \A t \in Tabs : \A a \in swAnswer[t] :
          /\ a.matched # {} => (a.source = "cache" /\ a.response \in a.matched)
          /\ (a.matched = {} /\ a.net # {}) => a.response \in a.net
          /\ (a.matched = {} /\ a.net = {}) => a.response = ResponseError
    /\ swFetches = swRequests

\* The page has been handed the cached entry while the network fetch of the
\* same request is still in flight.
C29_Witness ==
    \E t \in Tabs : \E a \in swAnswer[t] :
       /\ a.source = "cache"
       /\ \E f \in swFlights :
             f.tab = t /\ f.matched = a.matched /\ ~f.waits

=============================================================================
